---- MODULE Spec2Model ----
(***************************************************************************)
(* Model of the password scoring engine PasswordIntelligence               *)
(* (src/Aditya.py): the similarity matcher, the pattern library, the       *)
(* history ledger, the composite score and the memorable-password          *)
(* generator.                                                              *)
(*                                                                         *)
(* Strings are sequences of one-character tokens.  Python floats are       *)
(* fixed-point integers in units of 1/Scale; math.log and math.log2 are    *)
(* the tables LN and LOG2 in the same unit.                                *)
(***************************************************************************)
EXTENDS Integers, Sequences, FiniteSets, TLC

\* One unit of the fixed-point representation of Python floats: x is x * Scale.
Scale == 10000

(***************************************************************************)
(* Characters                                                              *)
(***************************************************************************)
LOWERCASE == <<"a","b","c","d","e","f","g","h","i","j","k","l","m","n","o","p","q","r","s","t","u","v","w","x","y","z">>
UPPERCASE == <<"A","B","C","D","E","F","G","H","I","J","K","L","M","N","O","P","Q","R","S","T","U","V","W","X","Y","Z">>
DIGITS == <<"0","1","2","3","4","5","6","7","8","9">>

\* The grave accent (U+0060), named because a string cannot hold it.
GRAVE == "U+0060"

\* The printable ASCII characters in code-point order: code points 32..126
ASCII == <<" ","!","\"","#","$","%","&","'","(",")","*","+",",","-",".","/","0","1","2","3","4","5","6","7","8","9",":",";","<","=",">","?","@","A","B","C","D","E","F","G","H","I","J","K","L","M","N","O","P","Q","R","S","T","U","V","W","X","Y","Z","[","\\","]","^","_",GRAVE,"a","b","c","d","e","f","g","h","i","j","k","l","m","n","o","p","q","r","s","t","u","v","w","x","y","z","{","|","}","~">>

\* Two non-ASCII letters, e-acute in lower and upper case (U+00E9, U+00C9).
E_ACUTE == "U+00E9"
E_ACUTE_UPPER == "U+00C9"

Range(s) == { s[i] : i \in 1..Len(s) }

IndexOf(c, s) == CHOOSE i \in 1..Len(s) : s[i] = c

\* str.islower / str.isupper / str.isdigit of one character
islower(c) == c \in Range(LOWERCASE) \cup {E_ACUTE}
isupper(c) == c \in Range(UPPERCASE) \cup {E_ACUTE_UPPER}
isdigit(c) == c \in Range(DIGITS)

\* str.lower / str.upper of one character
lower_char(c) ==
  IF c \in Range(UPPERCASE) THEN LOWERCASE[IndexOf(c, UPPERCASE)]
  ELSE IF c = E_ACUTE_UPPER THEN E_ACUTE ELSE c

upper_char(c) ==
  IF c \in Range(LOWERCASE) THEN UPPERCASE[IndexOf(c, LOWERCASE)]
  ELSE IF c = E_ACUTE THEN E_ACUTE_UPPER ELSE c

\* str.encode(): the UTF-8 bytes of a string
utf8_char(c) ==
  IF c = E_ACUTE THEN <<195, 169>>
  ELSE IF c = E_ACUTE_UPPER THEN <<195, 137>>
  ELSE <<31 + IndexOf(c, ASCII)>>

RECURSIVE encode(_)
encode(s) == IF s = <<>> THEN <<>> ELSE utf8_char(Head(s)) \o encode(Tail(s))

(***************************************************************************)
(* String helpers (Python str methods the engine uses)                     *)
(***************************************************************************)
\* A sequence written as a function [i \in 1..n |-> e], as the explicit tuple
\* of its elements (each element is then evaluated once)
tuple(f) == SubSeq(f, 1, Len(f))

lower(s) == tuple([i \in 1..Len(s) |-> lower_char(s[i])])

reversed(s) == tuple([i \in 1..Len(s) |-> s[Len(s) + 1 - i]])

\* sub in s
contains(s, sub) ==
  \E i \in 0..(Len(s) - Len(sub)) : SubSeq(s, i + 1, i + Len(sub)) = sub

\* s.count(c) for a single character c
count(s, c) == Cardinality({ i \in 1..Len(s) : s[i] = c })

\* s.replace(old, new) for single characters
replace(s, old, new) ==
  tuple([i \in 1..Len(s) |-> IF s[i] = old THEN new ELSE s[i]])

\* token * k
RECURSIVE repeat(_, _)
repeat(token, k) == IF k <= 0 THEN <<>> ELSE token \o repeat(token, k - 1)

Min2(a, b) == IF a <= b THEN a ELSE b
Max2(a, b) == IF a >= b THEN a ELSE b

(***************************************************************************)
(* Module constants                                                        *)
(***************************************************************************)
COMMON_PASSWORDS ==
  << <<"p","a","s","s","w","o","r","d">>,
     <<"1","2","3","4","5","6">>,
     <<"1","2","3","4","5","6","7","8">>,
     <<"q","w","e","r","t","y">>,
     <<"a","b","c","1","2","3">>,
     <<"m","o","n","k","e","y">>,
     <<"1","2","3","4","5","6","7">>,
     <<"l","e","t","m","e","i","n">>,
     <<"t","r","u","s","t","n","o","1">>,
     <<"d","r","a","g","o","n">>,
     <<"b","a","s","e","b","a","l","l">>,
     <<"1","1","1","1","1","1">>,
     <<"i","l","o","v","e","y","o","u">>,
     <<"m","a","s","t","e","r">>,
     <<"s","u","n","s","h","i","n","e">>,
     <<"a","s","h","l","e","y">>,
     <<"b","a","i","l","e","y">>,
     <<"p","a","s","s","w","0","r","d">>,
     <<"s","h","a","d","o","w">>,
     <<"1","2","3","1","2","3">> >>

KEYBOARD_PATTERNS ==
  << <<"q","w","e","r","t","y">>,
     <<"q","w","e","r","t","y","u","i","o","p">>,
     <<"a","s","d","f">>,
     <<"a","s","d","f","g","h">>,
     <<"a","s","d","f","g","h","j","k","l">>,
     <<"z","x","c","v">>,
     <<"z","x","c","v","b","n","m">>,
     <<"1","2","3","4","5">>,
     <<"1","2","3","4","5","6">>,
     <<"1","2","3","4","5","6","7">>,
     <<"1","2","3","4","5","6","7","8">>,
     <<"1","2","3","4","5","6","7","8","9">>,
     <<"1","2","3","4","5","6","7","8","9","0">>,
     <<"q","a","z">>,
     <<"w","s","x">>,
     <<"e","d","c">>,
     <<"r","f","v">>,
     <<"t","g","b">>,
     <<"y","h","n">>,
     <<"u","j","m">>,
     <<"i","k">>,
     <<"o","l">>,
     <<"p">> >>

\* The dict in its insertion order: <<letter, substitutes>>
LEET_SUBSTITUTIONS ==
  << <<"a", <<"@", "4">> >>, <<"e", <<"3">> >>, <<"i", <<"1", "!">> >>,
     <<"o", <<"0">> >>, <<"s", <<"5", "$">> >>, <<"t", <<"7">> >>,
     <<"l", <<"1">> >>, <<"g", <<"9">> >>, <<"b", <<"6">> >>, <<"z", <<"2">> >> >>

CONFUSING_CHARS == {"1", "l", "I", "0", "O"}

\* The character class "!@#$%^&*()_+-=[]{}|;:,.<>?" of the regular expressions
\* and of the symbol tests
SYMBOLS == {"!","@","#","$","%","^","&","*","(",")","_","+","-","=","[","]","{","}","|",";",":",",",".","<",">","?"}

\* self.common_passwords_set
common_passwords_set == { lower(COMMON_PASSWORDS[i]) : i \in 1..Len(COMMON_PASSWORDS) }

(***************************************************************************)
(* Similarity matcher                                                      *)
(***************************************************************************)
\* re.sub of a leading character-class run: drop the longest prefix inside the class
RECURSIVE strip_leading(_, _)
strip_leading(s, class) ==
  IF s # <<>> /\ Head(s) \in class THEN strip_leading(Tail(s), class) ELSE s

\* re.sub of a trailing character-class run: drop the longest suffix inside the class
RECURSIVE strip_trailing(_, _)
strip_trailing(s, class) ==
  IF s # <<>> /\ s[Len(s)] \in class
  THEN strip_trailing(SubSeq(s, 1, Len(s) - 1), class) ELSE s

\* the inner loop of _reverse_leet_speak: for sub in substitutions
RECURSIVE replace_all_subs(_, _, _)
replace_all_subs(result, char, subs) ==
  IF subs = <<>> THEN result
  ELSE replace_all_subs(replace(result, Head(subs), char), char, Tail(subs))

\* the outer loop of _reverse_leet_speak over the dict items from position k
RECURSIVE reverse_leet_from(_, _)
reverse_leet_from(result, k) ==
  IF k > Len(LEET_SUBSTITUTIONS) THEN result
  ELSE reverse_leet_from(
         replace_all_subs(result, LEET_SUBSTITUTIONS[k][1], LEET_SUBSTITUTIONS[k][2]),
         k + 1)

\* a variant that substitutes nothing
_reverse_leet_speak_nothing(password) == password

_reverse_leet_speak(password) == reverse_leet_from(password, 1)

\* one row of the dynamic programme: current_row after the inner loop over s2,
\* cur is the part of current_row built so far
RECURSIVE edit_row(_, _, _, _)
edit_row(previous_row, c1, s2, cur) ==
  IF Len(cur) = Len(s2) + 1 THEN cur
  ELSE LET j == Len(cur)              \* 1-based: previous_row[j] is Python's [j-1]
           insertions == previous_row[j + 1] + 1
           deletions == cur[j] + 1
           substitutions == previous_row[j] + (IF c1 # s2[j] THEN 1 ELSE 0)
       IN edit_row(previous_row, c1, s2,
                   Append(cur, Min2(Min2(insertions, deletions), substitutions)))

\* the outer loop: rows for s1[i..]
RECURSIVE edit_rows(_, _, _, _)
edit_rows(previous_row, s1, s2, i) ==
  IF i > Len(s1) THEN previous_row
  ELSE edit_rows(edit_row(previous_row, s1[i], s2, <<i>>), s1, s2, i + 1)

\* a variant that gives up as soon as the lengths differ by 2
_simple_edit_distance_sentinel_early(s1, s2) ==
  LET longer == IF Len(s1) < Len(s2) THEN s2 ELSE s1
      shorter == IF Len(s1) < Len(s2) THEN s1 ELSE s2
  IN IF shorter = <<>> THEN Len(longer)
     ELSE IF Len(longer) - Len(shorter) > 1 THEN 3
     ELSE edit_rows(tuple([j \in 1..(Len(shorter) + 1) |-> j - 1]), longer, shorter, 1)[Len(shorter) + 1]

RECURSIVE _simple_edit_distance(_, _)
_simple_edit_distance(s1, s2) ==
  IF Len(s1) < Len(s2) THEN _simple_edit_distance(s2, s1)
  ELSE IF s2 = <<>> THEN Len(s1)
  ELSE IF Len(s1) - Len(s2) > 2 THEN 3
  ELSE edit_rows(tuple([j \in 1..(Len(s2) + 1) |-> j - 1]), s1, s2, 1)[Len(s2) + 1]

cleaned_password(password) ==
  strip_trailing(strip_leading(password, SYMBOLS), SYMBOLS \cup Range(DIGITS))

\* a variant whose edit-distance threshold is 1
_is_similar_password_within_one(password, common_pwd) ==
  LET cleaned == cleaned_password(password)
      deleet_password == _reverse_leet_speak(cleaned)
  IN \/ deleet_password = common_pwd
     \/ cleaned = common_pwd
     \/ _simple_edit_distance(deleet_password, common_pwd) <= 1

_is_similar_password(password, common_pwd) ==
  LET cleaned == cleaned_password(password)
      deleet_password == _reverse_leet_speak(cleaned)
  IN \/ deleet_password = common_pwd
     \/ cleaned = common_pwd
     \/ _simple_edit_distance(deleet_password, common_pwd) <= 2

\* (is_match, strength): strength 0.9 and 0.7 in units of 1/Scale
check_common_passwords(password) ==
  LET password_lower == lower(password) IN
  IF password_lower \in common_passwords_set THEN <<TRUE, 9 * (Scale \div 10)>>
  ELSE IF \E k \in 1..Len(COMMON_PASSWORDS) :
            _is_similar_password(password_lower, lower(COMMON_PASSWORDS[k]))
       THEN <<TRUE, 7 * (Scale \div 10)>>
       ELSE <<FALSE, 0>>

(***************************************************************************)
(* Lexical pattern library                                                 *)
(***************************************************************************)
\* math.log(k) and math.log2(k) for k = 1..30, in units of 1/Scale
LN == <<0, 6931, 10986, 13863, 16094, 17918, 19459, 20794, 21972, 23026, 23979, 24849, 25649, 26391, 27081, 27726, 28332, 28904, 29444, 29957, 30445, 30910, 31355, 31781, 32189, 32581, 32958, 33322, 33673, 34012>>
LOG2 == <<0, 10000, 15850, 20000, 23219, 25850, 28074, 30000, 31699, 33219, 34594, 35850, 37004, 38074, 39069, 40000, 40875, 41699, 42479, 43219, 43923, 44594, 45236, 45850, 46439, 47004, 47549, 48074, 48580, 49069>>

\* the decimal fraction n/100 as a float
Hundredths(n) == n * (Scale \div 100)

RECURSIVE SumSeq(_)
SumSeq(s) == IF s = <<>> THEN 0 ELSE Head(s) + SumSeq(Tail(s))

\* the distinct characters of a string; set(password) iterates them in an order
\* the interpreter chooses, here the order of first occurrence
distinct_chars(s) ==
  LET firsts == SelectSeq(tuple([i \in 1..Len(s) |-> i]),
                          LAMBDA i : \A j \in 1..(i - 1) : s[j] # s[i])
  IN tuple([k \in 1..Len(firsts) |-> s[firsts[k]]])

\* str(year) for a four-digit year
year_str(year) ==
  << DIGITS[(year \div 1000) + 1], DIGITS[((year \div 100) % 10) + 1],
     DIGITS[((year \div 10) % 10) + 1], DIGITS[(year % 10) + 1] >>

NUMBER_SEQUENCES ==
  << <<"1","2","3">>, <<"2","3","4">>, <<"3","4","5">>, <<"4","5","6">>,
     <<"5","6","7">>, <<"6","7","8">>, <<"7","8","9">>, <<"8","9","0">> >>

VOWELS == {"a", "e", "i", "o", "u"}

keyboard_findings(password_lower) ==
  LET hit == SelectSeq(KEYBOARD_PATTERNS, LAMBDA p : contains(password_lower, p))
  IN tuple([k \in 1..Len(hit) |->
        [type |-> "keyboard_sequence", detail |-> hit[k], penalty |-> Hundredths(30)]])

repeated_character_findings(password) ==
  LET hit == SelectSeq(distinct_chars(password), LAMBDA c : count(password, c) >= 3)
  IN tuple([k \in 1..Len(hit) |->
        [type |-> "repeated_character",
         detail |-> <<hit[k], count(password, hit[k])>>,
         penalty |-> Hundredths(20) * (count(password, hit[k]) - 2)]])

repeated_token_findings(password) ==
  LET n == Len(password)
      fits(i) == repeat(SubSeq(password, 1, i), n \div i)
                   = SubSeq(password, 1, i * (n \div i))
      hit == { i \in 2..(n \div 2) : fits(i) }
  IN IF n >= 6 /\ hit # {}
     THEN LET first == CHOOSE i \in hit : \A k \in hit : i <= k
          IN << [type |-> "repeated_token", detail |-> SubSeq(password, 1, first),
                 penalty |-> Hundredths(40)] >>
     ELSE <<>>

year_findings(password) ==
  LET current_year == 2025
      years == tuple([k \in 1..(current_year + 10 - 1950) |-> 1949 + k])
      hit == SelectSeq(years, LAMBDA y : contains(password, year_str(y)))
  IN tuple([k \in 1..Len(hit) |->
        [type |-> "year_pattern", detail |-> year_str(hit[k]), penalty |-> Hundredths(15)]])

number_sequence_findings(password) ==
  LET hit == SelectSeq(NUMBER_SEQUENCES,
                       LAMBDA q : contains(password, q) \/ contains(password, reversed(q)))
  IN tuple([k \in 1..Len(hit) |->
        [type |-> "number_sequence", detail |-> hit[k], penalty |-> Hundredths(25)]])

palindrome_findings(password) ==
  IF Len(password) >= 5 /\ lower(password) = reversed(lower(password))
  THEN << [type |-> "palindrome", detail |-> <<>>, penalty |-> Hundredths(20)] >>
  ELSE <<>>

vowel_count(password) ==
  Cardinality({ i \in 1..Len(password) : lower_char(password[i]) \in VOWELS })

\* a variant that tests the length alone
low_vowel_findings_by_length(password) ==
  IF Len(password) >= 8
  THEN << [type |-> "low_vowels", detail |-> <<>>, penalty |-> Hundredths(30)] >>
  ELSE <<>>

\* vowel_count / len(password) < 0.1 as 10 * vowel_count < len(password)
low_vowel_findings(password) ==
  IF Len(password) >= 8 /\ 10 * vowel_count(password) < Len(password)
  THEN << [type |-> "low_vowels", detail |-> <<>>, penalty |-> Hundredths(30)] >>
  ELSE <<>>

\* the loop over range(2, len // 2 + 1) runs only when len >= 4; its test does
\* not depend on the loop variable
alternating_findings(password) ==
  IF /\ Len(password) \div 2 >= 2
     /\ \A j \in 1..Len(password) : password[j] = password[((j - 1) % 2) + 1]
  THEN << [type |-> "alternating_pattern", detail |-> <<>>, penalty |-> Hundredths(30)] >>
  ELSE <<>>

symbol_count(password) ==
  Cardinality({ i \in 1..Len(password) : password[i] \in SYMBOLS })

\* symbol_count / len(password) > 0.5 as 2 * symbol_count > len(password)
excessive_symbol_findings(password) ==
  IF 2 * symbol_count(password) > Len(password)
  THEN << [type |-> "excessive_symbols", detail |-> <<>>, penalty |-> Hundredths(20)] >>
  ELSE <<>>

\* A call either returns a value or ends in an exception.
Returned(v) == [raised |-> "", value |-> v]
Raised(e) == [raised |-> e, value |-> <<>>]

\* symbol_count / len(password) divides by zero for the empty string; the
\* vowel test before it is short-circuited by len(password) >= 8
detect_patterns(password) ==
  IF Len(password) = 0 THEN Raised("ZeroDivisionError")
  ELSE Returned(keyboard_findings(lower(password))
                \o repeated_character_findings(password)
                \o repeated_token_findings(password)
                \o year_findings(password)
                \o number_sequence_findings(password)
                \o palindrome_findings(password)
                \o low_vowel_findings(password)
                \o alternating_findings(password)
                \o excessive_symbol_findings(password))

\* (flag, penalty): 0.3 when two confusing characters are adjacent, else 0.2
\* when at least two occur, else 0.0
check_confusing_chars(password) ==
  LET confusing_count ==
        Cardinality({ i \in 1..Len(password) : password[i] \in CONFUSING_CHARS })
      consecutive_confusing ==
        \E i \in 1..(Len(password) - 1) :
          password[i] \in CONFUSING_CHARS /\ password[i + 1] \in CONFUSING_CHARS
      penalty == IF consecutive_confusing THEN Hundredths(30)
                 ELSE IF confusing_count >= 2 THEN Hundredths(20) ELSE 0
  IN << confusing_count >= 2 \/ consecutive_confusing, penalty >>

\* the number of maximal vowel runs
syllable_count(password) ==
  Cardinality({ i \in 1..Len(password) :
                  /\ lower_char(password[i]) \in VOWELS
                  /\ (i = 1 \/ lower_char(password[i - 1]) \notin VOWELS) })

\* min(1.0, syllable_count / (len(password) / 4)); divides by zero for ""
estimate_pronounceability(password) ==
  IF Len(password) = 0 THEN Raised("ZeroDivisionError")
  ELSE Returned(Min2(Scale, (4 * syllable_count(password) * Scale) \div Len(password)))

(***************************************************************************)
(* History ledger                                                          *)
(***************************************************************************)
\* hashlib.sha256(bytes).hexdigest(): a fixed-width digest computed from the
\* bytes (a polynomial hash stands for SHA-256)
RECURSIVE digest_fold(_, _)
digest_fold(h, bytes) ==
  IF bytes = <<>> THEN h
  ELSE digest_fold((h * 257 + Head(bytes) + 1) % 65521, Tail(bytes))

sha256_hexdigest(bytes) == digest_fold(Len(bytes), bytes)

pwd_hash(password) == sha256_hexdigest(encode(password))

\* the capacity of password_history
HISTORY_LIMIT == 50

\* a variant whose loop stops before the newest entry
check_password_reuse_but_newest(history, password) ==
  IF pwd_hash(password) \in { history[k].hash : k \in 1..(Len(history) - 1) }
  THEN <<TRUE, Hundredths(50)>>
  ELSE <<FALSE, 0>>

\* (flag, penalty)
check_password_reuse(history, password) ==
  IF pwd_hash(password) \in { history[k].hash : k \in 1..Len(history) }
  THEN <<TRUE, Hundredths(50)>>
  ELSE <<FALSE, 0>>

\* the tuple add_to_history appends; its timestamp is left out
history_entry(password, score) == [hash |-> pwd_hash(password), score |-> score]

\* a variant that skips a digest the history already holds
add_to_history_if_new(history, password, score) ==
  IF pwd_hash(password) \in { history[k].hash : k \in 1..Len(history) }
  THEN history
  ELSE LET appended == Append(history, history_entry(password, score))
       IN IF Len(appended) > HISTORY_LIMIT THEN Tail(appended) ELSE appended

\* a variant that pops the newest entry, pop(), where the code pops the oldest
add_to_history_pop_newest(history, password, score) ==
  LET appended == Append(history, history_entry(password, score))
  IN IF Len(appended) > HISTORY_LIMIT THEN SubSeq(appended, 1, Len(appended) - 1)
     ELSE appended

\* the history after add_to_history(password, score)
add_to_history(history, password, score) ==
  LET appended == Append(history, history_entry(password, score))
  IN IF Len(appended) > HISTORY_LIMIT THEN Tail(appended) ELSE appended

(***************************************************************************)
(* Scoring engine                                                          *)
(***************************************************************************)
\* A Python number: its type and its value in units of 1/Scale
PyInt(n) == [type |-> "int", v |-> n * Scale]
PyFloat(x) == [type |-> "float", v |-> x]

\* min(100, x) and max(0, x) return their first argument unless the second is
\* strictly smaller (larger)
py_min(a, b) == IF b.v < a.v THEN b ELSE a
py_max(a, b) == IF b.v > a.v THEN b ELSE a

\* int(x): truncation towards zero
py_int(x) == IF x.v >= 0 THEN x.v \div Scale ELSE -((-x.v) \div Scale)

length_score(length) ==
  IF length < 8 THEN Max2(0, length * 5 * Scale)
  ELSE Min2(50 * Scale, 20 * Scale + 10 * LN[length - 5])

variety_count(password) ==
  LET has(test(_)) == IF \E i \in 1..Len(password) : test(password[i]) THEN 1 ELSE 0
  IN has(islower) + has(isupper) + has(isdigit) + has(LAMBDA c : c \in SYMBOLS)

\* a variant that pays for the classes a candidate lacks
variety_score_of_missing(password) ==
  Min2(25 * Scale, (4 - variety_count(password)) * Hundredths(625))

variety_score(password) == Min2(25 * Scale, variety_count(password) * Hundredths(625))

\* min(15, 3 * entropy) over Counter(password.lower()), where
\* entropy = log2(n) - (1/n) * sum of freq * log2(freq)
uniqueness_score(password) ==
  LET n == Len(password)
      low == lower(password)
      chars == distinct_chars(low)
      weighted == tuple([k \in 1..Len(chars) |->
                          count(low, chars[k]) * LOG2[count(low, chars[k])]])
  IN IF Len(chars) > 1
     THEN Min2(15 * Scale, (3 * (n * LOG2[n] - SumSeq(weighted))) \div n)
     ELSE 0

\* a variant that leaves x as it is
clamp_score_unbounded(x) == PyFloat(x)

\* the outcome of clamping: max(0, min(100, x)) for the float x
clamp_score(x) == py_max(PyInt(0), py_min(PyInt(100), PyFloat(x)))

\* int(final_score * 0.7 + zxcvbn_score * 0.3), zxcvbn_score = score / 4 * 100
blend_score(final_score, zxcvbn_result_score) ==
  PyInt((7 * final_score.v + 3 * 25 * zxcvbn_result_score * Scale) \div (10 * Scale))

\* sum(pattern["penalty"] * 10 for pattern in patterns)
total_penalty(patterns) ==
  SumSeq(tuple([k \in 1..Len(patterns) |-> patterns[k].penalty * 10]))

\* The entries of the analysis that depend on the candidate alone, `patterns`
\* being the findings of detect_patterns: length, variety, bonus, uniqueness,
\* pronounceability, the findings and their penalty, the blacklist and the
\* confusing-character penalties
analysis_components(password, patterns) ==
  [length_score |-> length_score(Len(password)),
   variety_score |-> variety_score(password),
   bonus_points |->
     IF variety_count(password) >= 3 /\ Len(password) >= 8 THEN 5 * Scale ELSE 0,
   uniqueness_score |-> uniqueness_score(password),
   pronounceability_score |-> estimate_pronounceability(password).value * 10,
   pattern_penalties |-> patterns,
   total_penalty |-> total_penalty(patterns),
   blacklist_penalty |-> check_common_passwords(password)[2] * 30,
   confusing_penalty |-> check_confusing_chars(password)[2] * 10]

candidate_analysis(password) ==
  analysis_components(password, detect_patterns(password).value)

EMPTY == <<>>

\* Candidates the ledger specifications score: the empty string, a corpus
\* entry whose unclamped score is negative, a 7-character candidate that scores
\* 78, and a 19-character candidate whose unclamped score with the hint is 103
ScorePool ==
  { EMPTY,
    <<"1","2","3","4","5","6","7","8">>,
    <<"X","a","9","#","u","b","i">>,
    <<"R","i","v","e","r","C","a","d","e","#","S","u","n","-","b","g","4","7","!">> }

\* a variant that blends whether or not the estimator answered
final_score_always_blended(a, reuse_penalty, hint_relevance_score, blended, zxcvbn) ==
  blend_score(clamp_score(a.length_score + a.variety_score + a.uniqueness_score
                            + a.pronounceability_score + hint_relevance_score
                            + a.bonus_points - a.total_penalty - a.blacklist_penalty
                            - a.confusing_penalty - reuse_penalty),
              zxcvbn.score)

\* final_score before int(): the clamped sum of the components `a`, blended
\* with the answer of the estimator when there is one
final_score(a, reuse_penalty, hint_relevance_score, blended, zxcvbn) ==
  LET base_score == a.length_score + a.variety_score + a.uniqueness_score
                      + a.pronounceability_score + hint_relevance_score + a.bonus_points
      local_score == clamp_score(base_score - a.total_penalty - a.blacklist_penalty
                                   - a.confusing_penalty - reuse_penalty)
  IN IF blended THEN blend_score(local_score, zxcvbn.score) ELSE local_score

\* the dict score_password returns
analysis(a, reuse_penalty, hint_relevance_score, blended) ==
  LET entries == [length_score |-> a.length_score,
                  variety_score |-> a.variety_score,
                  uniqueness_score |-> a.uniqueness_score,
                  pronounceability_score |-> a.pronounceability_score,
                  pattern_penalties |-> a.pattern_penalties,
                  blacklist_penalty |-> a.blacklist_penalty,
                  confusing_penalty |-> a.confusing_penalty,
                  reuse_penalty |-> reuse_penalty,
                  hint_relevance_score |-> hint_relevance_score,
                  bonus_points |-> a.bonus_points,
                  total_penalty |-> a.total_penalty]
  IN IF blended THEN entries @@ ("zxcvbn_feedback" :> "feedback") ELSE entries

\* the end of score_password: the call of add_to_history and the returned pair
record_and_return(history, password, score, breakdown) ==
  [score |-> py_int(score),
   analysis |-> breakdown,
   history |-> add_to_history(history, password, score),
   appended |-> << history_entry(password, score) >>]

\* score_password for a non-empty candidate whose components are `a`
score_candidate(history, password, a, reuse_penalty, hint_relevance_score, blended, zxcvbn) ==
  record_and_return(history, password,
                    final_score(a, reuse_penalty, hint_relevance_score, blended, zxcvbn),
                    analysis(a, reuse_penalty, hint_relevance_score, blended))

\* One call of score_password on the ledger `history`.  zxcvbn is the outcome
\* of the external estimator for this call: [raises, score].  The result is
\* the returned pair (score, analysis), the ledger after the call and the
\* entries the call handed to add_to_history.
\* a variant that looks the candidate up after recording it
score_password_lookup_after_append(history, password, hint, zxcvbn_available, zxcvbn) ==
  IF password = <<>>
  THEN [score |-> 0, analysis |-> [error |-> "Empty password"], history |-> history,
        appended |-> <<>>]
  ELSE score_candidate(
         history, password, candidate_analysis(password),
         check_password_reuse(Append(history, history_entry(password, PyInt(0))), password)[2] * 10,
         IF hint # <<>> /\ contains(lower(password), lower(hint)) THEN 5 * Scale ELSE 0,
         zxcvbn_available /\ ~zxcvbn.raises, zxcvbn)

score_password(history, password, hint, zxcvbn_available, zxcvbn) ==
  IF password = <<>>
  THEN [score |-> 0, analysis |-> [error |-> "Empty password"], history |-> history,
        appended |-> <<>>]
  ELSE score_candidate(
         history, password, candidate_analysis(password),
         check_password_reuse(history, password)[2] * 10,
         IF hint # <<>> /\ contains(lower(password), lower(hint)) THEN 5 * Scale ELSE 0,
         zxcvbn_available /\ ~zxcvbn.raises, zxcvbn)

\* what is_valid_password returns after it has scored the candidate
valid_from(scored) ==
  [valid |-> scored.score >= 60, history |-> scored.history, appended |-> scored.appended]

\* a variant without the length test
is_valid_password_any_length(history, password, zxcvbn_available, zxcvbn) ==
  valid_from(score_password(history, password, <<>>, zxcvbn_available, zxcvbn))

\* One call of is_valid_password: the returned flag and the ledger after it
is_valid_password(history, password, zxcvbn_available, zxcvbn) ==
  IF Len(password) < 8 THEN [valid |-> FALSE, history |-> history, appended |-> <<>>]
  ELSE valid_from(score_password(history, password, <<>>, zxcvbn_available, zxcvbn))

(***************************************************************************)
(* Memorable-password generator                                            *)
(***************************************************************************)
isalnum_ascii(c) == c \in Range(LOWERCASE) \cup Range(UPPERCASE) \cup Range(DIGITS)
iscased(c) == islower(c) \/ isupper(c)

\* str.title(): a cased character is upper-cased at the start of a word and
\* lower-cased after another cased character
title(s) ==
  tuple([i \in 1..Len(s) |->
           IF i > 1 /\ iscased(s[i - 1]) THEN lower_char(s[i]) ELSE upper_char(s[i])])

complexity_configs(complexity) ==
  IF complexity = "simple"
  THEN [symbols |-> <<"!", "#">>, numbers |-> TRUE, transformations |-> FALSE]
  ELSE IF complexity = "complex"
  THEN [symbols |-> <<"!", "@", "#", "$", "%">>, numbers |-> TRUE, transformations |-> TRUE]
  ELSE [symbols |-> <<"!", "@", "#", "$">>, numbers |-> TRUE, transformations |-> TRUE]

SECURITY_WORDS == << <<"S","e","c","u","r","e">>, <<"S","t","r","o","n","g">>, <<"S","a","f","e">> >>
PADDING_WORDS == << <<"P","r","o">>, <<"M","a","x">>, <<"P","l","u","s">> >>

\* re.sub(r'[^a-zA-Z0-9]', '', hint).title(), prefixed when shorter than 3
hint_clean(hint) ==
  IF Len(SelectSeq(hint, isalnum_ascii)) < 3
  THEN <<"S","e","c","u","r","e">> \o title(SelectSeq(hint, isalnum_ascii))
  ELSE title(SelectSeq(hint, isalnum_ascii))

\* the two replacements of the transformations
replace_a(hint) ==
  IF "a" \in Range(lower(hint)) THEN replace(replace(hint, "a", "@"), "A", "@") ELSE hint

replace_e(hint) ==
  IF "e" \in Range(lower(hint)) THEN replace(replace(hint, "e", "3"), "E", "3") ELSE hint

transformed_hint(hint) == replace_e(replace_a(hint))

\* the end of generate_memorable_password: one padding word, or a cut
pad_or_cut(password, length, padding) ==
  IF Len(password) < length THEN password \o padding
  ELSE IF Len(password) > length THEN SubSeq(password, 1, length)
  ELSE password

\* "".join(components)
components(hint, config, word, year, symbol) ==
  (IF config.transformations THEN transformed_hint(hint) ELSE hint)
    \o word \o (IF config.numbers THEN year_str(year) ELSE <<>>) \o <<symbol>>

\* generate_memorable_password with its random choices as arguments: the
\* security word, the year of randint(2020, 2025), the symbol, the padding word
generate_memorable_password(hint, length, complexity, word, year, symbol, padding) ==
  pad_or_cut(components(hint_clean(IF hint = <<>> THEN <<"S","e","c","u","r","e">> ELSE hint),
                        complexity_configs(complexity), word, year, symbol),
             length, padding)

(***************************************************************************)
(* The engine as a state machine                                           *)
(***************************************************************************)
\* Bounds of the model: the calls of one behaviour that may record an entry,
\* from the empty ledger (Spec) and from a ledger at its capacity (SpecFull)
MaxCalls == 2
MaxCallsFull == 2

HintPool == { EMPTY, <<"s","u","n">> }

\* What zxcvbn.zxcvbn(password) may do in one call: raise, or return a result
\* with a "score" of 0..4, of which the model takes the two ends
ZxcvbnScores == {0, 4}
ZxcvbnRaises == [raises |-> TRUE, score |-> 0]
ZxcvbnOutcomes == { ZxcvbnRaises } \cup { [raises |-> FALSE, score |-> s] : s \in ZxcvbnScores }

\* strictness_mode of a PasswordIntelligence() built without arguments
DEFAULT_MODE == "balanced"

VARIABLES
  password_history,   \* self.password_history, without the timestamps
  ZXCVBN_AVAILABLE,   \* whether the import of zxcvbn succeeded
  strictness_mode,    \* self.strictness_mode
  in_progress,        \* the score_password calls of concurrent callers, where each stands
  recorded,           \* every entry handed to add_to_history, in order
  budget,             \* calls the caller may still make that can record an entry
  op,                 \* the operation called last
  args,               \* its arguments
  result              \* what it returned or raised

vars == <<password_history, ZXCVBN_AVAILABLE, strictness_mode, in_progress, recorded, budget, op,
          args, result>>

\* the state after PasswordIntelligence.__init__
Init ==
  /\ password_history = <<>>
  /\ ZXCVBN_AVAILABLE \in BOOLEAN
  /\ strictness_mode = DEFAULT_MODE
  /\ in_progress = <<>>
  /\ recorded = <<>>
  /\ budget = MaxCalls
  /\ op = "__init__"
  /\ args = <<>>
  /\ result = Returned(<<>>)

\* the estimator is consulted only when it was imported
OutcomesNow == IF ZXCVBN_AVAILABLE THEN ZxcvbnOutcomes ELSE { ZxcvbnRaises }

ScorePassword ==
  /\ budget > 0
  /\ \E password \in ScorePool, hint \in HintPool, zxcvbn \in OutcomesNow :
       \E r \in { score_password(password_history, password, hint, ZXCVBN_AVAILABLE, zxcvbn) } :
          /\ password_history' = r.history
          /\ recorded' = recorded \o r.appended
          /\ op' = "score_password"
          /\ args' = [password |-> password, hint |-> hint, zxcvbn |-> zxcvbn]
          /\ result' = Returned([score |-> r.score, analysis |-> r.analysis])
  /\ budget' = budget - 1
  /\ UNCHANGED <<ZXCVBN_AVAILABLE, strictness_mode, in_progress>>

IsValidPassword ==
  /\ budget > 0
  /\ \E password \in ScorePool, zxcvbn \in OutcomesNow :
       \E r \in { is_valid_password(password_history, password, ZXCVBN_AVAILABLE, zxcvbn) } :
          /\ password_history' = r.history
          /\ recorded' = recorded \o r.appended
          /\ op' = "is_valid_password"
          /\ args' = [password |-> password, hint |-> EMPTY, zxcvbn |-> zxcvbn]
          /\ result' = Returned(r.valid)
  /\ budget' = budget - 1
  /\ UNCHANGED <<ZXCVBN_AVAILABLE, strictness_mode, in_progress>>

CheckPasswordReuse ==
  /\ \E password \in ScorePool :
       /\ op' = "check_password_reuse"
       /\ args' = [password |-> password]
       /\ result' = Returned(check_password_reuse(password_history, password))
  /\ UNCHANGED <<password_history, ZXCVBN_AVAILABLE, strictness_mode, in_progress, recorded, budget>>

Next == ScorePassword \/ IsValidPassword \/ CheckPasswordReuse

Spec == Init /\ [][Next]_vars

\* The ledger after scoring `password` n more times without a hint while the
\* estimator is absent or raises
RECURSIVE scored_times(_, _, _)
scored_times(history, password, n) ==
  IF n = 0 THEN history
  ELSE CHOOSE last \in
         { scored_times(h, password, n - 1) :
             h \in { score_password(history, password, EMPTY, FALSE, ZxcvbnRaises).history } } :
         TRUE

FIRST_SCORED == <<"X","a","9","#","u","b","i">>
THEN_SCORED == <<"1","2","3","4","5","6","7","8">>

\* An engine without the estimator whose ledger is one entry short of its
\* capacity, or at it: one candidate was scored once and another one after it,
\* again and again
InitFull ==
  /\ \E n \in {HISTORY_LIMIT - 1, HISTORY_LIMIT} :
       \E h \in { scored_times(<<>>, FIRST_SCORED, 1) } :
          password_history = scored_times(h, THEN_SCORED, n - 1)
  /\ ZXCVBN_AVAILABLE = FALSE
  /\ strictness_mode = DEFAULT_MODE
  /\ in_progress = <<>>
  /\ recorded = password_history
  /\ budget = MaxCallsFull
  /\ op = "__init__"
  /\ args = <<>>
  /\ result = Returned(<<>>)

SpecFull == InitFull /\ [][Next]_vars

(***************************************************************************)
(* The matching operations and the generator, applied to strings           *)
(***************************************************************************)
MatchPool ==
  ScorePool \cup
  { <<"p","a","s","s","w","o","r","d">>,
    <<"P","a","s","s","w","0","r","d","!">>,
    <<"P","@","s","s","w","o","r","d">>,
    <<"P","a","s","s","W","0","r","d">>,
    <<"p","a","s","s","w","0","r","d","!">>,
    <<"!","!","m","0","n","k","3","y","2","0","2","4">>,
    <<"d","r","a","g","o","n","s","x">>,
    <<"d","r","a","g","o","n","s","x","y">>,
    <<"q","w","e","r","t","y","u","i","o","p">>,
    <<"1","1","1","1","1","1">>,
    <<"1","2","3","4","5">>,
    <<"a","a","a","a","a","a","a","a">>,
    <<"a","b","a","b">>,
    <<"!","!","!","!">>,
    <<"I","1","l","u","s","i","o","n">>,
    <<"T","r","@","m","p","o","l","i","n","e","$","9","2","!">>,
    <<"x">>,
    <<E_ACUTE, "t", E_ACUTE_UPPER>> }

GenHints == { EMPTY, <<"s","u","n","s","e","t">>, <<"a","b">>, <<"m","y"," ","c","a","t","!">> }
GenLengths == {8, 14, 16, 24}
GenComplexities == {"simple", "balanced", "complex", "other"}

\* a variant that also records the string it was given
DetectPatternsRecording ==
  /\ budget > 0
  /\ \E password \in MatchPool :
       /\ op' = "detect_patterns"
       /\ args' = [password |-> password]
       /\ result' = detect_patterns(password)
       /\ password_history' = add_to_history(password_history, password, PyInt(0))
  /\ budget' = budget - 1
  /\ UNCHANGED <<ZXCVBN_AVAILABLE, strictness_mode, in_progress, recorded>>

DetectPatterns ==
  /\ budget > 0
  /\ \E password \in MatchPool :
       /\ op' = "detect_patterns"
       /\ args' = [password |-> password]
       /\ result' = detect_patterns(password)
  /\ budget' = budget - 1
  /\ UNCHANGED <<password_history, ZXCVBN_AVAILABLE, strictness_mode, in_progress, recorded>>

CheckCommonPasswords ==
  /\ budget > 0
  /\ \E password \in MatchPool :
       /\ op' = "check_common_passwords"
       /\ args' = [password |-> password]
       /\ result' = Returned(check_common_passwords(password))
  /\ budget' = budget - 1
  /\ UNCHANGED <<password_history, ZXCVBN_AVAILABLE, strictness_mode, in_progress, recorded>>

CheckConfusingChars ==
  /\ budget > 0
  /\ \E password \in MatchPool :
       /\ op' = "check_confusing_chars"
       /\ args' = [password |-> password]
       /\ result' = Returned(check_confusing_chars(password))
  /\ budget' = budget - 1
  /\ UNCHANGED <<password_history, ZXCVBN_AVAILABLE, strictness_mode, in_progress, recorded>>

EstimatePronounceability ==
  /\ budget > 0
  /\ \E password \in MatchPool :
       /\ op' = "estimate_pronounceability"
       /\ args' = [password |-> password]
       /\ result' = estimate_pronounceability(password)
  /\ budget' = budget - 1
  /\ UNCHANGED <<password_history, ZXCVBN_AVAILABLE, strictness_mode, in_progress, recorded>>

GenerateMemorablePassword ==
  /\ budget > 0
  /\ \E hint \in GenHints, length \in GenLengths, complexity \in GenComplexities,
        w \in 1..Len(SECURITY_WORDS), year \in 2020..2025, pad \in 1..Len(PADDING_WORDS) :
       \E symbol \in Range(complexity_configs(complexity).symbols) :
          /\ op' = "generate_memorable_password"
          /\ args' = [hint |-> hint, length |-> length, complexity |-> complexity]
          /\ result' = Returned(generate_memorable_password(
                          hint, length, complexity, SECURITY_WORDS[w], year, symbol,
                          PADDING_WORDS[pad]))
  /\ budget' = budget - 1
  /\ UNCHANGED <<password_history, ZXCVBN_AVAILABLE, strictness_mode, in_progress, recorded>>

\* score_password and is_valid_password on the strings of MatchPool
ScoreAnyPassword ==
  /\ budget > 0
  /\ \E password \in MatchPool, hint \in HintPool, zxcvbn \in OutcomesNow :
       \E r \in { score_password(password_history, password, hint, ZXCVBN_AVAILABLE, zxcvbn) } :
          /\ password_history' = r.history
          /\ recorded' = recorded \o r.appended
          /\ op' = "score_password"
          /\ args' = [password |-> password, hint |-> hint, zxcvbn |-> zxcvbn]
          /\ result' = Returned([score |-> r.score, analysis |-> r.analysis])
  /\ budget' = budget - 1
  /\ UNCHANGED <<ZXCVBN_AVAILABLE, strictness_mode, in_progress>>

IsValidAnyPassword ==
  /\ budget > 0
  /\ \E password \in MatchPool, zxcvbn \in OutcomesNow :
       \E r \in { is_valid_password(password_history, password, ZXCVBN_AVAILABLE, zxcvbn) } :
          /\ password_history' = r.history
          /\ recorded' = recorded \o r.appended
          /\ op' = "is_valid_password"
          /\ args' = [password |-> password, hint |-> EMPTY, zxcvbn |-> zxcvbn]
          /\ result' = Returned(r.valid)
  /\ budget' = budget - 1
  /\ UNCHANGED <<ZXCVBN_AVAILABLE, strictness_mode, in_progress>>

NextPure ==
  \/ DetectPatterns
  \/ CheckCommonPasswords
  \/ CheckConfusingChars
  \/ EstimatePronounceability
  \/ GenerateMemorablePassword
  \/ ScoreAnyPassword
  \/ IsValidAnyPassword
  \/ CheckPasswordReuse

\* one call of any operation on a freshly constructed engine; here every
\* operation takes one unit of the budget
InitPure ==
  /\ password_history = <<>>
  /\ ZXCVBN_AVAILABLE \in BOOLEAN
  /\ strictness_mode = DEFAULT_MODE
  /\ in_progress = <<>>
  /\ recorded = <<>>
  /\ budget = 1
  /\ op = "__init__"
  /\ args = <<>>
  /\ result = Returned(<<>>)

SpecPure == InitPure /\ [][NextPure]_vars

(***************************************************************************)
(* Properties of the ledger and of the score                               *)
(***************************************************************************)
\* the step is a call of the operation `name` that took from the budget
Called(name) == op' = name /\ budget' # budget

\* the digests a history holds
hashes(history) == { history[k].hash : k \in 1..Len(history) }

\* the last n elements of s, all of s when it has fewer
LastN(s, n) == SubSeq(s, Len(s) - Min2(Len(s), n) + 1, Len(s))

\* C1: whatever the candidate, the hint and the ledger, and whether the
\* estimator is absent, raises or answers, score_password returns an integer
\* score between 0 and 100
C1_ScoreInRange ==
  op = "score_password" =>
    /\ result.raised = ""
    /\ result.value.score \in 0..100

\* the sum of the components exceeded 100 and the returned score is 100
C1_Clamped ==
  /\ op = "score_password"
  /\ ~ZXCVBN_AVAILABLE
  /\ args.hint # EMPTY
  /\ result.value.score = 100

\* C2: a call of score_password on a non-empty candidate appends exactly one
\* entry, the one of this candidate, to the ledger: the entries kept from
\* before stay as they were, also when the digest was recorded before and when
\* the score is 0
C2_AppendsExactlyOne ==
  [][ (Called("score_password") /\ args'.password # EMPTY) =>
        LET kept == IF Len(password_history) < HISTORY_LIMIT THEN password_history
                    ELSE Tail(password_history)
        IN /\ Len(password_history') = Len(kept) + 1
           /\ SubSeq(password_history', 1, Len(kept)) = kept
           /\ password_history'[Len(password_history')].hash = pwd_hash(args'.password)
           /\ Len(recorded') = Len(recorded) + 1
           /\ recorded'[Len(recorded')] = password_history'[Len(password_history')] ]_vars

\* a candidate that scores 0 was scored twice and the ledger holds two entries
\* of its digest
C2_RepeatedZeroRecorded ==
  /\ op = "score_password"
  /\ result.value.score = 0
  /\ args.password # EMPTY
  /\ Len(password_history) = 2
  /\ password_history[1].hash = pwd_hash(args.password)
  /\ password_history[2].hash = pwd_hash(args.password)

\* C3: the ledger never holds more than 50 entries and is always the last
\* min(n, 50) of the n entries recorded so far, in their order; no call raises
\* when the ledger overflows
C3_BoundedFifo ==
  /\ Len(password_history) <= HISTORY_LIMIT
  /\ password_history = LastN(recorded, HISTORY_LIMIT)
  /\ op \in {"score_password", "is_valid_password"} => result.raised = ""

\* two entries were recorded on a full ledger and the two oldest are gone
C3_Evicted ==
  /\ Len(recorded) = HISTORY_LIMIT + 2
  /\ Len(password_history) = HISTORY_LIMIT
  /\ password_history[1] = recorded[3]

\* C4: a call of score_password on a non-empty candidate reports the reuse
\* penalty 5 when the digest of the candidate is in the ledger and 0 when it is
\* not; scoring a candidate a second time right after the first reports 5
C4_ReusePenalty ==
  [][ (Called("score_password") /\ args'.password # EMPTY) =>
        /\ result'.value.analysis.reuse_penalty =
             IF pwd_hash(args'.password) \in hashes(password_history)
             THEN 5 * Scale ELSE 0
        /\ (op = "score_password" /\ args.password = args'.password) =>
             result'.value.analysis.reuse_penalty = 5 * Scale ]_vars

\* the second of two calls on the same candidate reported the penalty 5
C4_SecondCallPenalised ==
  /\ op = "score_password"
  /\ Len(password_history) = 2
  /\ password_history[1].hash = password_history[2].hash
  /\ result.value.analysis.reuse_penalty = 5 * Scale

\* the component scores and penalties of a breakdown
ComponentKeys ==
  { "length_score", "variety_score", "uniqueness_score", "pronounceability_score",
    "blacklist_penalty", "confusing_penalty", "reuse_penalty", "hint_relevance_score",
    "bonus_points", "total_penalty" }

\* C5: scoring the empty candidate returns, without raising, the score 0 and a
\* breakdown that has the error marker and every component score and penalty,
\* each equal to zero
C5_EmptyBreakdownComplete ==
  (op = "score_password" /\ args.password = EMPTY) =>
    /\ result.raised = ""
    /\ result.value.score = 0
    /\ "error" \in DOMAIN result.value.analysis
    /\ \A key \in ComponentKeys :
         /\ key \in DOMAIN result.value.analysis
         /\ result.value.analysis[key] = 0

\* C6: no matching or scoring operation ends in an exception, whatever string
\* it is given: the empty one, one of symbols only, one outside ASCII
C6_Total ==
  op \in { "detect_patterns", "check_common_passwords", "check_confusing_chars",
           "estimate_pronounceability", "check_password_reuse", "score_password",
           "is_valid_password" }
    => result.raised = ""

\* C7: is_valid_password returns true exactly when the candidate has at least
\* 8 characters and score_password, called without a hint on the same ledger
\* with the same answer of the estimator, scores it 60 or more
C7_ValidIffLongAndStrong ==
  [][ Called("is_valid_password") =>
        \E scored \in { score_password(password_history, args'.password, EMPTY,
                                       ZXCVBN_AVAILABLE, args'.zxcvbn) } :
          /\ result'.raised = ""
          /\ result'.value = (Len(args'.password) >= 8 /\ scored.score >= 60) ]_vars

\* a candidate of 8 or more characters was found valid
C7_FoundValid ==
  /\ op = "is_valid_password"
  /\ Len(args.password) >= 8
  /\ result.value = TRUE

\* C8: the string generate_memorable_password returns has exactly the
\* requested length, whatever security word, year, symbol and padding word it
\* draws; stated for the call the claim names, ("sunset", 16, "balanced")
C8_SunsetSixteen ==
  ( /\ op = "generate_memorable_password"
    /\ args = [hint |-> <<"s","u","n","s","e","t">>, length |-> 16,
               complexity |-> "balanced"] )
    => Len(result.value) = 16

(***************************************************************************)
(* Properties of the similarity matcher                                    *)
(***************************************************************************)
\* s becomes w by at most k insertions, deletions and substitutions of one
\* character each
RECURSIVE WithinEdits(_, _, _)
WithinEdits(s, w, k) ==
  IF k < 0 THEN FALSE
  ELSE IF s = <<>> THEN Len(w) <= k
  ELSE IF w = <<>> THEN Len(s) <= k
  ELSE IF Head(s) = Head(w) THEN WithinEdits(Tail(s), Tail(w), k)
  ELSE \/ WithinEdits(Tail(s), w, k - 1)
       \/ WithinEdits(s, Tail(w), k - 1)
       \/ WithinEdits(Tail(s), Tail(w), k - 1)

\* the candidate lower-cased, stripped at its edges and de-leeted
normalized(password) == _reverse_leet_speak(cleaned_password(lower(password)))

\* C9: check_common_passwords returns (True, 0.9) exactly when the lower-cased
\* candidate is in the corpus; otherwise (True, 0.7) exactly when the
\* normalized candidate equals a corpus entry or is within edit distance 2 of
\* one; otherwise (False, 0.0); the flag is true iff the strength is not zero
C9_CommonPasswordResult ==
  op = "check_common_passwords" =>
    \E cleaned \in { normalized(args.password) } :
      LET exact == lower(args.password) \in common_passwords_set
          near == \E entry \in common_passwords_set :
                    cleaned = entry \/ WithinEdits(cleaned, entry, 2)
      IN /\ result.raised = ""
         /\ result.value \in { <<TRUE, Hundredths(90)>>, <<TRUE, Hundredths(70)>>,
                               <<FALSE, 0>> }
         /\ (result.value = <<TRUE, Hundredths(90)>>) <=> exact
         /\ (result.value = <<TRUE, Hundredths(70)>>) <=> (~exact /\ near)
         /\ result.value[1] <=> (result.value[2] # 0)
         \* the test cleaned_password == common_pwd of _is_similar_password adds
         \* nothing: an entry that stripping leaves alone is, de-leeted, within
         \* edit distance 2 of itself
         /\ \A entry \in common_passwords_set :
              cleaned_password(entry) = entry
                => WithinEdits(_reverse_leet_speak(entry), entry, 2)

\* a candidate was matched by edit distance alone: its normalized form is no
\* corpus entry
C9_MatchedByDistance ==
  /\ op = "check_common_passwords"
  /\ result.value = <<TRUE, Hundredths(70)>>
  /\ normalized(args.password) \notin common_passwords_set

PASSWORD == <<"p","a","s","s","w","o","r","d">>

\* C10: "Passw0rd!" and "P@ssword" are reported as (True, 0.7), and each is
\* similar to the corpus entry "password": stripped at its edges and de-leeted
\* it is that entry
C10_FlaggedSimilarToPassword ==
  ( /\ op = "check_common_passwords"
    /\ args.password \in { <<"P","a","s","s","w","0","r","d","!">>,
                           <<"P","@","s","s","w","o","r","d">> } )
    => /\ result.value = <<TRUE, Hundredths(70)>>
       /\ _is_similar_password(lower(args.password), PASSWORD)
       /\ normalized(args.password) = PASSWORD

\* "P@ssword" was checked and flagged with strength 0.7
C10_AtSignFlagged ==
  /\ op = "check_common_passwords"
  /\ args.password = <<"P","@","s","s","w","o","r","d">>
  /\ result.value = <<TRUE, Hundredths(70)>>

(***************************************************************************)
(* Properties of the components, the findings and the feedback             *)
(***************************************************************************)
\* the character classes of the variety score that c belongs to
classes_of(c) ==
  (IF islower(c) THEN {"lowercase"} ELSE {}) \cup (IF isupper(c) THEN {"uppercase"} ELSE {})
    \cup (IF isdigit(c) THEN {"digits"} ELSE {}) \cup (IF c \in SYMBOLS THEN {"symbols"} ELSE {})

classes_in(password) == UNION { classes_of(password[i]) : i \in 1..Len(password) }

\* C11: when a scored candidate uses fewer than 4 of the classes lower, upper,
\* digit and symbol, the variety score of the candidate with one more
\* character, of a class it lacks, is not below the variety score reported for
\* the candidate; the reported score is 6.25 per class, at most 25
C11_VarietyMonotone ==
  (op = "score_password" /\ args.password # EMPTY) =>
    /\ result.value.analysis.variety_score
         = Min2(25 * Scale, Cardinality(classes_in(args.password)) * Hundredths(625))
    /\ Cardinality(classes_in(args.password)) < 4 =>
         \A c \in Range(ASCII) \cup {E_ACUTE, E_ACUTE_UPPER} :
           (classes_of(c) # {} /\ classes_of(c) \cap classes_in(args.password) = {})
             => variety_score(Append(args.password, c))
                  >= result.value.analysis.variety_score

\* a candidate of three classes was scored: 18.75
C11_ThreeClasses ==
  /\ op = "score_password"
  /\ Cardinality(classes_in(args.password)) = 3
  /\ result.value.analysis.variety_score = Hundredths(1875)

\* Calls of detect_patterns, one after the other, on an engine that has scored
\* one candidate
MaxDetectCalls == 3

InitDetect ==
  /\ password_history = scored_times(<<>>, FIRST_SCORED, 1)
  /\ ZXCVBN_AVAILABLE \in BOOLEAN
  /\ strictness_mode = DEFAULT_MODE
  /\ in_progress = <<>>
  /\ recorded = password_history
  /\ budget = MaxDetectCalls
  /\ op = "__init__"
  /\ args = <<>>
  /\ result = Returned(<<>>)

SpecDetect == InitDetect /\ [][DetectPatterns]_vars

EIGHT_AS == <<"a","a","a","a","a","a","a","a">>

\* the kinds of the findings a call of detect_patterns returned
finding_types == { result.value[k].type : k \in 1..Len(result.value) }

\* C13, as the code has it: for "aaaaaaaa" detect_patterns reports a
\* repeated-character finding and no low-vowel finding, all its characters
\* being vowels, and is_valid_password returns false
C13_EightAsRepeatedNotLowVowel ==
  /\ (op = "detect_patterns" /\ args.password = EIGHT_AS) =>
       /\ result.raised = ""
       /\ "repeated_character" \in finding_types
       /\ "low_vowels" \notin finding_types
  /\ (op = "is_valid_password" /\ args.password = EIGHT_AS) => result.value = FALSE

\* C13, as stated: for "aaaaaaaa" detect_patterns reports a repeated-character
\* finding and a low-vowel finding, and is_valid_password returns false
C13_EightAsLowVowel ==
  /\ (op = "detect_patterns" /\ args.password = EIGHT_AS) =>
       /\ result.raised = ""
       /\ "repeated_character" \in finding_types
       /\ "low_vowels" \in finding_types
  /\ (op = "is_valid_password" /\ args.password = EIGHT_AS) => result.value = FALSE

\* detect_patterns was called on "aaaaaaaa" and reported the character "a"
\* repeated 8 times, penalty 0.2 * 6
C13_EightAsDetected ==
  /\ op = "detect_patterns"
  /\ args.password = EIGHT_AS
  /\ \E k \in 1..Len(result.value) :
       /\ result.value[k].type = "repeated_character"
       /\ result.value[k].penalty = Hundredths(120)

(***************************************************************************)
(* give_feedback: the tier of a score under the strictness mode            *)
(***************************************************************************)
StrictnessModes == {"lenient", "balanced", "strict"}

score_thresholds(mode) ==
  CASE mode = "lenient"  -> [weak |-> 30, fair |-> 50, good |-> 70, excellent |-> 85]
    [] mode = "balanced" -> [weak |-> 40, fair |-> 60, good |-> 80, excellent |-> 90]
    [] mode = "strict"   -> [weak |-> 50, fair |-> 70, good |-> 85, excellent |-> 95]

\* the label give_feedback puts in its first line
strength(mode, score) ==
  LET threshold == score_thresholds(mode)
  IN IF score < threshold.weak THEN "Weak"
     ELSE IF score < threshold.fair THEN "Fair"
     ELSE IF score < threshold.good THEN "Good"
     ELSE "Excellent"

emoji(mode, score) ==
  LET threshold == score_thresholds(mode)
  IN IF score < threshold.weak THEN "red circle"
     ELSE IF score < threshold.fair THEN "yellow circle"
     ELSE "green circle"

positive_points(a) ==
  (IF a.length_score >= 35 * Scale THEN <<"good length">> ELSE <<>>)
  \o (IF a.variety_score >= 15 * Scale THEN <<"nice character variety">> ELSE <<>>)
  \o (IF a.uniqueness_score >= 10 * Scale THEN <<"good character distribution">> ELSE <<>>)
  \o (IF a.pronounceability_score >= 8 * Scale THEN <<"easy to pronounce">> ELSE <<>>)
  \o (IF a.bonus_points > 0 THEN <<"well-balanced composition">> ELSE <<>>)

issues(a) ==
  (IF "error" \in DOMAIN a THEN <<"Password cannot be empty">> ELSE <<>>)
  \o (IF a.length_score < 25 * Scale THEN <<"Password is too short">> ELSE <<>>)
  \o (IF a.variety_score < 15 * Scale THEN <<"Add more character types">> ELSE <<>>)
  \o (IF a.blacklist_penalty > 20 * Scale THEN <<"Password is too common">> ELSE <<>>)
  \o (IF a.confusing_penalty > 0 THEN <<"Avoid confusing characters">> ELSE <<>>)
  \o (IF a.reuse_penalty > 0 THEN <<"Password was used before">> ELSE <<>>)
  \o (IF a.pattern_penalties # <<>> THEN <<"Predictable patterns">> ELSE <<>>)

\* the keys give_feedback subscripts; a dictionary without one raises KeyError
FeedbackKeys ==
  {"length_score", "variety_score", "uniqueness_score", "pronounceability_score",
   "bonus_points", "blacklist_penalty", "confusing_penalty", "reuse_penalty",
   "pattern_penalties"}

\* the parts of the text give_feedback returns: the label and the score of
\* the first line, the sign before it, the strengths and the improvements
give_feedback(mode, score, a) ==
  IF ~(FeedbackKeys \subseteq DOMAIN a)
  THEN Raised("KeyError")
  ELSE Returned([strength |-> strength(mode, score),
                 score |-> score,
                 emoji |-> emoji(mode, score),
                 positive_points |-> positive_points(a),
                 issues |-> issues(a)])

\* the scores and the analyses give_feedback is called on: every score of
\* the range, and what score_password returns for the pool, first use and reuse
FeedbackScores == 0..100
FeedbackAnalyses ==
  { score_password(<<>>, p, EMPTY, FALSE, ZxcvbnRaises).analysis : p \in ScorePool }
    \cup { score_password(scored_times(<<>>, FIRST_SCORED, 1), FIRST_SCORED, EMPTY,
                          FALSE, ZxcvbnRaises).analysis }

GiveFeedback ==
  /\ budget > 0
  /\ \E score \in FeedbackScores, a \in FeedbackAnalyses :
       /\ op' = "give_feedback"
       /\ args' = [score |-> score, analysis |-> a]
       /\ result' = give_feedback(strictness_mode, score, a)
  /\ budget' = budget - 1
  /\ UNCHANGED <<password_history, ZXCVBN_AVAILABLE, strictness_mode, in_progress, recorded>>

\* the state after PasswordIntelligence(strictness_mode) for each of the modes
InitFeedback ==
  /\ password_history = <<>>
  /\ ZXCVBN_AVAILABLE \in BOOLEAN
  /\ strictness_mode \in StrictnessModes
  /\ in_progress = <<>>
  /\ recorded = <<>>
  /\ budget = 1
  /\ op = "__init__"
  /\ args = <<>>
  /\ result = Returned(<<>>)

SpecFeedback == InitFeedback /\ [][GiveFeedback]_vars

TierRank(tier) ==
  CASE tier = "Weak" -> 1 [] tier = "Fair" -> 2 [] tier = "Good" -> 3
    [] tier = "Excellent" -> 4

\* C14: give_feedback labels a score with exactly one of Weak, Fair, Good and
\* Excellent from the cutoffs of the strictness mode; a lower score never gets
\* a higher label, and the label is Excellent only for a score of at least
\* the excellent cutoff of the mode (85 lenient, 90 balanced, 95 strict)
C14_ExcellentFromExcellentCutoff ==
  (op = "give_feedback" /\ result.raised = "") =>
    /\ result.value.strength \in {"Weak", "Fair", "Good", "Excellent"}
    /\ \A below \in 0..args.score :
         TierRank(strength(strictness_mode, below)) <= TierRank(result.value.strength)
    /\ result.value.strength = "Excellent"
         => args.score >= score_thresholds(strictness_mode).excellent

\* the tiers and their order alone, which the code does keep
C14_FourTiersMonotone ==
  (op = "give_feedback" /\ result.raised = "") =>
    /\ result.value.strength \in {"Weak", "Fair", "Good", "Excellent"}
    /\ \A below \in 0..args.score :
         TierRank(strength(strictness_mode, below)) <= TierRank(result.value.strength)

\* balanced mode labelled the score 84 Excellent
C14_EightyFourExcellent ==
  /\ op = "give_feedback"
  /\ strictness_mode = "balanced"
  /\ args.score = 84
  /\ result.raised = ""
  /\ result.value.strength = "Excellent"

\* the clamped local formula, from the components of a returned breakdown
local_only(a) ==
  Max2(0, Min2(100 * Scale,
               a.length_score + a.variety_score + a.uniqueness_score
                 + a.pronounceability_score + a.hint_relevance_score + a.bonus_points
                 - a.total_penalty - a.blacklist_penalty - a.confusing_penalty
                 - a.reuse_penalty))

\* C15: a score_password call whose estimator is unavailable or raises does
\* not fail, returns the clamped local score with nothing of the estimator
\* blended in, and its entry is the newest of the ledger; when the estimator
\* answers, the score is 0.7 of the local score plus 0.3 of the answer scaled
\* to 0..100, as an integer
C15_OracleDegradation ==
  (op = "score_password" /\ args.password # EMPTY) =>
    /\ result.raised = ""
    /\ (~ZXCVBN_AVAILABLE \/ args.zxcvbn.raises) =>
         /\ result.value.score = local_only(result.value.analysis) \div Scale
         /\ "zxcvbn_feedback" \notin DOMAIN result.value.analysis
         /\ password_history # <<>>
         /\ password_history[Len(password_history)].hash = pwd_hash(args.password)
         /\ recorded[Len(recorded)] = password_history[Len(password_history)]
    /\ (ZXCVBN_AVAILABLE /\ ~args.zxcvbn.raises) =>
         /\ result.value.score =
              (7 * local_only(result.value.analysis)
                 + 3 * 25 * args.zxcvbn.score * Scale) \div (10 * Scale)
         /\ password_history[Len(password_history)].hash = pwd_hash(args.password)

\* the estimator was imported and raised on a candidate whose local score is
\* 78.42: the call returned 78 and recorded the candidate
C15_RaisedScoredLocally ==
  /\ op = "score_password"
  /\ ZXCVBN_AVAILABLE
  /\ args.zxcvbn.raises
  /\ args.password = FIRST_SCORED
  /\ result.value.score = 78
  /\ Len(password_history) = 1

\* C16: every entry of the ledger holds a digest and not the candidate, and
\* an integer score in 0..100; the entry a scoring call recorded holds the
\* score the call returned
C16_EntryHoldsReturnedScore ==
  /\ \A k \in 1..Len(password_history) :
       /\ DOMAIN password_history[k] = {"hash", "score"}
       /\ password_history[k].hash \in Nat
       /\ password_history[k].score.type = "int"
       /\ password_history[k].score.v \in { n * Scale : n \in 0..100 }
  /\ (op = "score_password" /\ args.password # EMPTY) =>
       password_history[Len(password_history)].score = PyInt(result.value.score)

\* what the code keeps of it: a digest and a number in 0..100 whose integer
\* part is the score the call returned
C16_EntryWithinOneOfReturnedScore ==
  /\ \A k \in 1..Len(password_history) :
       /\ DOMAIN password_history[k] = {"hash", "score"}
       /\ password_history[k].hash \in Nat
       /\ password_history[k].score.v \in 0..(100 * Scale)
  /\ (op = "score_password" /\ args.password # EMPTY) =>
       py_int(password_history[Len(password_history)].score) = result.value.score

(***************************************************************************)
(* score_password called by concurrent callers on one engine               *)
(***************************************************************************)
\* The code takes no lock: the steps of one call that touch
\* self.password_history are the loop of check_password_reuse (taken here
\* as one step), the append, the length test and the pop of add_to_history,
\* and a thread switch may fall between any two of them.
Callers == {1, 2}
ConcurrentPool == { FIRST_SCORED, THEN_SCORED }

idle_call ==
  [pc |-> "idle", password |-> EMPTY, reuse_penalty |-> 0, seen |-> 0]

\* a caller enters score_password with a non-empty candidate
EnterScorePassword(c) ==
  /\ in_progress[c].pc = "idle"
  /\ \E password \in ConcurrentPool :
       in_progress' = [in_progress EXCEPT ![c] = [idle_call EXCEPT !.pc = "lookup",
                                                                 !.password = password]]
  /\ budget' = budget - 1
  /\ UNCHANGED <<password_history, ZXCVBN_AVAILABLE, strictness_mode, recorded, op, args, result>>

\* reuse_found, reuse_penalty = self.check_password_reuse(password)
LookupReuse(c) ==
  /\ in_progress[c].pc = "lookup"
  /\ in_progress' =
       [in_progress EXCEPT
          ![c].pc = "append",
          ![c].reuse_penalty = check_password_reuse(password_history, in_progress[c].password)[2] * 10,
          ![c].seen = Len(password_history)]
  /\ UNCHANGED <<password_history, ZXCVBN_AVAILABLE, strictness_mode, recorded, budget, op, args, result>>

\* the final_score of the call in progress of a caller, the estimator absent
final_score_of(call) ==
  final_score(candidate_analysis(call.password), call.reuse_penalty, 0, FALSE, ZxcvbnRaises)

\* self.password_history.append(...)
AppendEntry(c) ==
  /\ in_progress[c].pc = "append"
  /\ \E entry \in { history_entry(in_progress[c].password, final_score_of(in_progress[c])) } :
       /\ password_history' = Append(password_history, entry)
       /\ recorded' = Append(recorded, entry)
  /\ in_progress' = [in_progress EXCEPT ![c].pc = "test"]
  /\ UNCHANGED <<ZXCVBN_AVAILABLE, strictness_mode, budget, op, args, result>>

\* if len(self.password_history) > 50
TestLength(c) ==
  /\ in_progress[c].pc = "test"
  /\ in_progress' = [in_progress EXCEPT
                       ![c].pc = IF Len(password_history) > HISTORY_LIMIT THEN "pop" ELSE "return"]
  /\ UNCHANGED <<password_history, ZXCVBN_AVAILABLE, strictness_mode, recorded, budget, op, args, result>>

\* self.password_history.pop(0)
PopOldest(c) ==
  /\ in_progress[c].pc = "pop"
  /\ password_history' = Tail(password_history)
  /\ in_progress' = [in_progress EXCEPT ![c].pc = "return"]
  /\ UNCHANGED <<ZXCVBN_AVAILABLE, strictness_mode, recorded, budget, op, args, result>>

\* return int(final_score), analysis
ReturnScore(c) ==
  /\ in_progress[c].pc = "return"
  /\ op' = "score_password"
  /\ args' = [password |-> in_progress[c].password, hint |-> EMPTY, zxcvbn |-> ZxcvbnRaises]
  /\ result' = Returned([score |-> py_int(final_score_of(in_progress[c])),
                         analysis |-> analysis(candidate_analysis(in_progress[c].password),
                                               in_progress[c].reuse_penalty, 0, FALSE)])
  /\ in_progress' = [in_progress EXCEPT ![c].pc = "done"]
  /\ UNCHANGED <<password_history, ZXCVBN_AVAILABLE, strictness_mode, recorded, budget>>

NextConcurrent ==
  \E c \in Callers :
    \/ EnterScorePassword(c)
    \/ LookupReuse(c)
    \/ AppendEntry(c)
    \/ TestLength(c)
    \/ PopOldest(c)
    \/ ReturnScore(c)

\* an engine whose ledger holds 49 or 50 entries, before the callers start
InitConcurrent ==
  /\ \E n \in {HISTORY_LIMIT - 1, HISTORY_LIMIT} :
       \E h \in { scored_times(<<>>, FIRST_SCORED, 1) } :
          password_history = scored_times(h, THEN_SCORED, n - 1)
  /\ ZXCVBN_AVAILABLE = FALSE
  /\ strictness_mode = DEFAULT_MODE
  /\ in_progress = [c \in Callers |-> idle_call]
  /\ recorded = password_history
  /\ budget = Cardinality(Callers)
  /\ op = "__init__"
  /\ args = <<>>
  /\ result = Returned(<<>>)

SpecConcurrent == InitConcurrent /\ [][NextConcurrent]_vars

\* the callers between the append of add_to_history and the end of its
\* eviction
InAppendAndEvict == { c \in DOMAIN in_progress : in_progress[c].pc \in {"test", "pop"} }

\* C17: with concurrent callers of score_password on one engine, the append
\* and eviction of one call excludes those of every other call, no lookup
\* sees a ledger of more than 50 entries, and once every call has returned
\* the ledger holds the last 50 recorded entries, each once
C17_LedgerMutuallyExclusive ==
  /\ Cardinality(InAppendAndEvict) <= 1
  /\ \A c \in DOMAIN in_progress : in_progress[c].seen <= HISTORY_LIMIT
  /\ (in_progress # <<>> /\ \A c \in DOMAIN in_progress : in_progress[c].pc = "done")
       => password_history = LastN(recorded, HISTORY_LIMIT)

(***************************************************************************)
(* suggest_alternatives                                                    *)
(***************************************************************************)
\* str(n) for a two-digit n
two_digit_str(n) == << DIGITS[(n \div 10) + 1], DIGITS[(n % 10) + 1] >>

ENHANCE_SYMBOL_TEST == {"!","@","#","$","%","^","&","*","(",")"}
ENHANCE_SYMBOLS == <<"!", "#", "$">>
ENHANCE_ADDITIONS ==
  << <<"S","e","c","u","r","e">>, <<"S","t","r","o","n","g">>, <<"S","a","f","e">> >>

\* _enhance_existing_password, with what its random draws returned
_enhance_existing_password(password, symbol, number, addition) ==
  LET capitalised ==
        IF (\A i \in 1..Len(password) : ~isupper(password[i])) /\ islower(password[1])
        THEN <<upper_char(password[1])>> \o Tail(password)
        ELSE password
      with_symbol ==
        IF \A i \in 1..Len(capitalised) : capitalised[i] \notin ENHANCE_SYMBOL_TEST
        THEN Append(capitalised, symbol)
        ELSE capitalised
      with_number ==
        IF \A i \in 1..Len(with_symbol) : ~isdigit(with_symbol[i])
        THEN with_symbol \o two_digit_str(number)
        ELSE with_symbol
  IN IF Len(with_number) < 10 THEN addition \o with_number ELSE with_number

PATTERN_WORDS ==
  << <<"S","u","n","s","e","t">>, <<"O","c","e","a","n">>, <<"M","o","u","n","t","a","i","n">>,
     <<"R","i","v","e","r">>, <<"F","o","r","e","s","t">>, <<"G","a","r","d","e","n">>,
     <<"B","r","i","d","g","e">> >>
PATTERN_ACTIONS ==
  << <<"R","u","n">>, <<"J","u","m","p">>, <<"F","l","y">>, <<"C","o","d","e">>,
     <<"B","u","i","l","d">> >>
PATTERN_SYMBOLS == <<"#", "&", "@">>

\* _generate_pattern_based_password, with what its random draws returned
_generate_pattern_based_password(word1, word2, symbol, year) ==
  word1 \o <<"-">> \o word2 \o <<symbol>> \o year_str(year) \o <<"!">>

\* suggestions[:count]
slice_to(s, stop) ==
  IF stop >= 0 THEN SubSeq(s, 1, Min2(stop, Len(s)))
  ELSE SubSeq(s, 1, Max2(Len(s) + stop, 0))

\* the list suggest_alternatives returns, given the three generated
\* passwords; each suggestion with its password and its explanation
suggest_alternatives(password, hint, how_many, enhanced, memorable, pattern_based) ==
  slice_to(
    (IF Len(password) >= 4
     THEN << [password |-> enhanced,
              explanation |-> "Enhanced your password with better security"] >>
     ELSE <<>>)
    \o (IF hint # <<>>
        THEN << [password |-> memorable,
                 explanation |-> "Based on hint with strong security"] >>
        ELSE <<>>)
    \o << [password |-> pattern_based,
           explanation |-> "Human-friendly pattern, easy to remember"] >>,
    how_many)

\* The candidates, hints and counts of the calls, and the values the model
\* lets the random draws take
SuggestPool ==
  { EMPTY,
    <<"a","b","c">>,
    <<"a","b","c","d">>,
    <<"X","a","9","#","u","b","i">>,
    <<"1","a","b","c","d","e","f","g","h","i","j">>,
    <<"s","u","n","s","e","t","-","b","e","a","c","h">> }
SuggestCounts == {0, 1, 2, 3}
DrawnNumbers == {10, 99}
DrawnYears == {2020, 2025}
DrawnWords == {1, Len(PATTERN_WORDS)}
DrawnActions == {1}
DrawnSecurityWords == {1, Len(SECURITY_WORDS)}
DrawnPaddings == {1, Len(PADDING_WORDS)}
DrawnSymbols == {1, Len(ENHANCE_SYMBOLS)}

\* the passwords the three generators may return for a candidate and a hint
enhanced_draws(password) ==
  IF Len(password) >= 4
  THEN { _enhance_existing_password(password, ENHANCE_SYMBOLS[s], n, ENHANCE_ADDITIONS[w]) :
           s \in DrawnSymbols, n \in DrawnNumbers, w \in DrawnSecurityWords }
  ELSE { EMPTY }

memorable_draws(hint) ==
  IF hint # <<>>
  THEN { generate_memorable_password(hint, 14, "balanced", SECURITY_WORDS[w], year,
                                     complexity_configs("balanced").symbols[s],
                                     PADDING_WORDS[pad]) :
           w \in DrawnSecurityWords, year \in DrawnYears, s \in DrawnSymbols,
           pad \in DrawnPaddings }
  ELSE { EMPTY }

pattern_draws ==
  { _generate_pattern_based_password(PATTERN_WORDS[w], PATTERN_ACTIONS[a],
                                     PATTERN_SYMBOLS[s], year) :
      w \in DrawnWords, a \in DrawnActions, s \in DrawnSymbols, year \in DrawnYears }

SuggestAlternatives ==
  /\ budget > 0
  /\ \E password \in SuggestPool, hint \in HintPool, how_many \in SuggestCounts,
        zxcvbn \in OutcomesNow :
       \E r \in { score_password(password_history, password, hint, ZXCVBN_AVAILABLE, zxcvbn) } :
          /\ password_history' = r.history
          /\ recorded' = recorded \o r.appended
          /\ op' = "suggest_alternatives"
          /\ args' = [password |-> password, hint |-> hint, count |-> how_many]
          /\ \E enhanced \in enhanced_draws(password), memorable \in memorable_draws(hint),
                pattern_based \in pattern_draws :
               result' = Returned(suggest_alternatives(password, hint, how_many, enhanced,
                                                       memorable, pattern_based))
  /\ budget' = budget - 1
  /\ UNCHANGED <<ZXCVBN_AVAILABLE, strictness_mode, in_progress>>

InitSuggest ==
  /\ password_history = <<>>
  /\ ZXCVBN_AVAILABLE \in BOOLEAN
  /\ strictness_mode = DEFAULT_MODE
  /\ in_progress = <<>>
  /\ recorded = <<>>
  /\ budget = 1
  /\ op = "__init__"
  /\ args = <<>>
  /\ result = Returned(<<>>)

SpecSuggest == InitSuggest /\ [][SuggestAlternatives]_vars

\* the explanations of the suggestions a call is due, in rank order
ranked_explanations(password, hint) ==
  (IF Len(password) >= 4 THEN <<"Enhanced your password with better security">> ELSE <<>>)
  \o (IF hint # <<>> THEN <<"Based on hint with strong security">> ELSE <<>>)
  \o <<"Human-friendly pattern, easy to remember">>

explanations(suggestions) ==
  tuple([k \in 1..Len(suggestions) |-> suggestions[k].explanation])

\* C18: suggest_alternatives returns at most count suggestions, a prefix of
\* enhancement (candidates of 4 characters or more), hint-derived password
\* (hint supplied), pattern-based password; the enhancement of a candidate
\* contains an uppercase letter, a digit and a symbol
C18_RankedAndEnhanced ==
  op = "suggest_alternatives" =>
    /\ result.raised = ""
    /\ Len(result.value) <= args.count
    /\ \E n \in 0..3 :
         explanations(result.value)
           = SubSeq(ranked_explanations(args.password, args.hint), 1, n)
    /\ \A k \in 1..Len(result.value) :
         result.value[k].explanation = "Enhanced your password with better security"
           => {"uppercase", "digits", "symbols"} \subseteq classes_in(result.value[k].password)

\* the enhancement of 1abcdefghij was returned without an uppercase letter
C18_EnhancedWithoutUppercase ==
  /\ op = "suggest_alternatives"
  /\ args.password = <<"1","a","b","c","d","e","f","g","h","i","j">>
  /\ Len(result.value) >= 1
  /\ "uppercase" \notin classes_in(result.value[1].password)

(***************************************************************************)
(* _simple_edit_distance on all short strings                              *)
(***************************************************************************)
MaxEditLen == 4
EditAlphabet == {"a", "b"}
EditStrings == UNION { { tuple(f) : f \in [1..n -> EditAlphabet] } : n \in 0..MaxEditLen }

SimpleEditDistance ==
  /\ budget > 0
  /\ \E s1 \in EditStrings, s2 \in EditStrings :
       /\ op' = "_simple_edit_distance"
       /\ args' = [s1 |-> s1, s2 |-> s2]
       /\ result' = Returned(_simple_edit_distance(s1, s2))
  /\ budget' = budget - 1
  /\ UNCHANGED <<password_history, ZXCVBN_AVAILABLE, strictness_mode, in_progress, recorded>>

SpecDistance == InitPure /\ [][SimpleEditDistance]_vars

\* the Levenshtein distance: the least number of edits that suffices
Levenshtein(s, w) ==
  CHOOSE k \in 0..Max2(Len(s), Len(w)) : WithinEdits(s, w, k) /\ ~WithinEdits(s, w, k - 1)

\* C19: _simple_edit_distance(s1, s2) is at most 2 exactly when the
\* Levenshtein distance of s1 and s2 is; it gives the same for (s2, s1); it
\* is the Levenshtein distance when the lengths differ by at most 2 or the
\* shorter string is empty, and 3 when they differ by more and the shorter
\* string is not empty
C19_WithinTwoIffLevenshtein ==
  op = "_simple_edit_distance" =>
    LET longer == Max2(Len(args.s1), Len(args.s2))
        shorter == Min2(Len(args.s1), Len(args.s2))
    IN /\ result.raised = ""
       /\ (result.value <= 2) <=> (Levenshtein(args.s1, args.s2) <= 2)
       /\ result.value = _simple_edit_distance(args.s2, args.s1)
       /\ (longer - shorter <= 2 \/ shorter = 0)
            => result.value = Levenshtein(args.s1, args.s2)
       /\ (longer - shorter > 2 /\ shorter # 0) => result.value = 3

\* the distance of "a" and "bbbb" is 4 and the function returned 3
C19_SentinelReturned ==
  /\ op = "_simple_edit_distance"
  /\ args.s1 = <<"a">>
  /\ args.s2 = <<"b","b","b","b">>
  /\ Levenshtein(args.s1, args.s2) = 4
  /\ result.value = 3

\* C20: check_password_reuse reports reuse exactly when one of the entries
\* still retained, the last 50 recorded, has the digest of the candidate; a
\* scoring call reports the penalty 5 on the same condition taken before
\* its own entry is recorded, so that a candidate whose entry was evicted,
\* or that was never scored, is not penalised
C20_ReuseIffRetained ==
  [][ /\ op' = "check_password_reuse" =>
           result'.value =
             IF pwd_hash(args'.password) \in hashes(LastN(recorded', HISTORY_LIMIT))
             THEN <<TRUE, Hundredths(50)>> ELSE <<FALSE, 0>>
      /\ (Called("score_password") /\ args'.password # EMPTY) =>
           /\ result'.value.analysis.reuse_penalty =
                IF pwd_hash(args'.password) \in hashes(LastN(recorded, HISTORY_LIMIT))
                THEN 5 * Scale ELSE 0
           /\ pwd_hash(args'.password) \notin hashes(recorded)
                => result'.value.analysis.reuse_penalty = 0 ]_vars

\* the candidate recorded first was scored again after its entry had been
\* evicted by 50 recordings of other candidates, and was not penalised
C20_ScoredAgainAfterEviction ==
  /\ op = "score_password"
  /\ args.password = FIRST_SCORED
  /\ Len(recorded) = HISTORY_LIMIT + 2
  /\ recorded[1].hash = pwd_hash(FIRST_SCORED)
  /\ \A k \in 2..(HISTORY_LIMIT + 1) : recorded[k].hash # pwd_hash(FIRST_SCORED)
  /\ result.value.analysis.reuse_penalty = 0

(***************************************************************************)
(* score_password followed by is_valid_password, as run_cli calls them     *)
(***************************************************************************)
MaxVerdictCalls == 2

\* candidates of 8 characters or more: one that scores 0, one that scores
\* 64 when first seen, one that scores 98
VerdictPool ==
  { <<"1","2","3","4","5","6","7","8">>,
    <<"M","o","o","n","l","i","g","h","t">>,
    <<"R","i","v","e","r","C","a","d","e","#","S","u","n","-","b","g","4","7","!">> }

ScoreForVerdict ==
  /\ budget > 0
  /\ \E password \in VerdictPool, hint \in HintPool, zxcvbn \in OutcomesNow :
       \E r \in { score_password(password_history, password, hint, ZXCVBN_AVAILABLE, zxcvbn) } :
          /\ password_history' = r.history
          /\ recorded' = recorded \o r.appended
          /\ op' = "score_password"
          /\ args' = [password |-> password, hint |-> hint, zxcvbn |-> zxcvbn]
          /\ result' = Returned([score |-> r.score, analysis |-> r.analysis])
  /\ budget' = budget - 1
  /\ UNCHANGED <<ZXCVBN_AVAILABLE, strictness_mode, in_progress>>

VerdictOf ==
  /\ budget > 0
  /\ \E password \in VerdictPool, zxcvbn \in OutcomesNow :
       \E r \in { is_valid_password(password_history, password, ZXCVBN_AVAILABLE, zxcvbn) } :
          /\ password_history' = r.history
          /\ recorded' = recorded \o r.appended
          /\ op' = "is_valid_password"
          /\ args' = [password |-> password, hint |-> EMPTY, zxcvbn |-> zxcvbn]
          /\ result' = Returned(r.valid)
  /\ budget' = budget - 1
  /\ UNCHANGED <<ZXCVBN_AVAILABLE, strictness_mode, in_progress>>

InitVerdict ==
  /\ password_history = <<>>
  /\ ZXCVBN_AVAILABLE \in BOOLEAN
  /\ strictness_mode = DEFAULT_MODE
  /\ in_progress = <<>>
  /\ recorded = <<>>
  /\ budget = MaxVerdictCalls
  /\ op = "__init__"
  /\ args = <<>>
  /\ result = Returned(<<>>)

SpecVerdict == InitVerdict /\ [][ScoreForVerdict \/ VerdictOf]_vars

\* C21: when score_password without a hint returned s for a candidate of 8
\* characters or more, is_valid_password called next on the same candidate,
\* the estimator behaving as before, returns true exactly when s >= 60
C21_VerdictAgreesWithScore ==
  [][ ( /\ op = "score_password"
        /\ args.hint = EMPTY
        /\ Len(args.password) >= 8
        /\ Called("is_valid_password")
        /\ args'.password = args.password
        /\ args'.zxcvbn = args.zxcvbn )
      => (result'.value <=> (result.value.score >= 60)) ]_vars

\* Moonlight scored 64 and was then found invalid
C21_ScoredSixtyFourThenInvalid ==
  /\ op = "is_valid_password"
  /\ args.password = <<"M","o","o","n","l","i","g","h","t">>
  /\ Len(recorded) = 2
  /\ recorded[1].hash = recorded[2].hash
  /\ py_int(recorded[1].score) = 64
  /\ result.value = FALSE

\* C22: the length component never decreases with the length: a candidate
\* scored by score_password has at least the length points of every
\* shorter length, across the boundary between 7 and 8 characters too
C22_LengthScoreMonotone ==
  (op = "score_password" /\ args.password # EMPTY) =>
    \A m \in 0..(Len(args.password) - 1) :
      length_score(m) <= result.value.analysis.length_score

\* within each branch the component does not decrease: below 8 characters,
\* and from 8 characters on
C22_MonotoneWithinBranch ==
  (op = "score_password" /\ args.password # EMPTY) =>
    \A m \in 0..(Len(args.password) - 1) :
      ((m < 8) <=> (Len(args.password) < 8))
        => length_score(m) <= result.value.analysis.length_score

\* a candidate of 8 characters got fewer length points than 7 characters earn
C22_EightBelowSeven ==
  /\ op = "score_password"
  /\ Len(args.password) = 8
  /\ result.value.analysis.length_score < length_score(7)
====
